---- MODULE Spec2Model ----
(***************************************************************************)
(* Model of news-react-modern/serve.py: a development static-file server   *)
(* (a SimpleHTTPRequestHandler subclass with a path rewrite in do_GET and  *)
(* three CORS headers added in end_headers) and its start-up wrapper       *)
(* (bind, banner, browser launch, accept loop, interrupt and OSError       *)
(* handlers).                                                              *)
(*                                                                         *)
(* Two processes run the script on the same machine.  The inherited        *)
(* http.server behaviour that the handler's overrides rely on              *)
(* (parse_request, the do_<command> dispatch, send_head, send_error and    *)
(* the HTTP/0.9 guard of send_header) is modelled next to the override     *)
(* that calls into it.                                                     *)
(***************************************************************************)
EXTENDS Integers, Sequences, FiniteSets, TLC

(***************************************************************************)
(* Program constants                                                       *)
(***************************************************************************)
\* the literal the OSError handler compares e.errno with
ERRNO_IN_USE_LITERAL == 48

(***************************************************************************)
(* Bounds of the model                                                     *)
(***************************************************************************)
\* how many interrupt signals may be delivered to one process
MaxSigints == 2

(***************************************************************************)
(* Environment                                                             *)
(***************************************************************************)
Instances == {"first", "second"}

Platforms == {"darwin", "linux"}

\* errno the platform reports for "address already in use"
EADDRINUSE(p) == IF p = "darwin" THEN 48 ELSE 98

\* errnos of start-up failures that are not "address already in use"
\* (EACCES; EADDRNOTAVAIL as the platform numbers it)
OtherErrnos(p) == IF p = "darwin" THEN {13, 49} ELSE {13, 99}

NoFile == "<absent>"

\* files the root directory may hold, with the content of each
FileNames == {"dev-server.html", "index.html"}

\* a root directory: which of the files exist, and what each holds
Roots == {f \in [FileNames -> {NoFile, "D", "I"}] :
            /\ f["dev-server.html"] \in {NoFile, "D"}
            /\ f["index.html"] \in {NoFile, "I"}}

(***************************************************************************)
(* Request paths: a path is the sequence of its tokens, so that            *)
(* "/index.html?x=1" and "/index.html" are different values, as the        *)
(* strings are for Python's ==.                                            *)
(***************************************************************************)
P_root  == <<"/">>
P_index == <<"/", "index.html">>
P_dev   == <<"/", "dev-server.html">>
P_query == <<"/", "?", "x=1">>
P_sub   == <<"/", "a", "/", "index.html">>

Paths == {P_root, P_index, P_dev, P_query, P_sub}

Commands == {"GET", "HEAD", "POST", "OPTIONS"}

\* third word of the request line; NoVersion is a two-word request line
NoVersion == "<none>"

Versions == {NoVersion, "HTTP/1.1", "HTTP/x.y"}

CORS_ORIGIN  == "Access-Control-Allow-Origin: *"
CORS_METHODS == "Access-Control-Allow-Methods: GET, POST, OPTIONS"
CORS_HEADERS == "Access-Control-Allow-Headers: Content-Type"

NoResponse ==
    [inst |-> "none", command |-> "", path |-> <<>>, version |-> "",
     code |-> 0, head |-> <<>>, body |-> <<>>, served |-> <<>>]

VARIABLES
    platform,   \* the operating system the processes run on
    root,       \* contents of DIRECTORY, the directory of serve.py
    pc,         \* pc[i]: where process i is in the __main__ block
    sock,       \* sock[i]: process i holds the listening socket on PORT
    err,        \* err[i]: errno of the OSError raised by the bind, 0 if none
    exitCode,   \* exitCode[i]: -1 while running, else the status of sys.exit
    log,        \* log[i]: what process i has done and printed, in order
    sigints,    \* sigints[i]: interrupts delivered to process i after its bind
    resp        \* the last response written, with the request it answers

vars == <<platform, root, pc, sock, err, exitCode, log, sigints, resp>>

life == <<pc, sock, err, exitCode, log, sigints>>

(***************************************************************************)
(* Sequence helpers                                                        *)
(***************************************************************************)
Range(s) == {s[k] : k \in 1..Len(s)}

Count(s, x) == Cardinality({k \in 1..Len(s) : s[k] = x})

\* index of the first occurrence of x in s, 0 if there is none
First(s, x) ==
    IF x \in Range(s)
    THEN CHOOSE k \in 1..Len(s) : s[k] = x /\ \A j \in 1..(k - 1) : s[j] # x
    ELSE 0

(***************************************************************************)
(* BaseHTTPRequestHandler: the header buffer.  rv is self.request_version; *)
(* every writer of the header block is a no-op when it is 'HTTP/0.9'.      *)
(***************************************************************************)
StatusLine(code) ==
    CASE code = 200 -> "HTTP/1.0 200"
      [] code = 400 -> "HTTP/1.0 400"
      [] code = 404 -> "HTTP/1.0 404"
      [] code = 501 -> "HTTP/1.0 501"
      [] OTHER      -> "HTTP/1.0 ???"

send_response_only(rv, code) ==
    IF rv # "HTTP/0.9" THEN <<StatusLine(code)>> ELSE <<>>

send_header(buf, rv, line) ==
    IF rv # "HTTP/0.9" THEN Append(buf, line) ELSE buf

\* BaseHTTPRequestHandler.end_headers: the blank line, then the flush
super_end_headers(buf, rv) ==
    IF rv # "HTTP/0.9" THEN Append(buf, "") ELSE buf

send_response(rv, code) ==
    send_header(send_header(send_response_only(rv, code), rv, "Server"), rv, "Date")

(***************************************************************************)
(* Handler.end_headers (serve.py 15-19)                                    *)
(***************************************************************************)
\* the override with its third send_header missing
end_headers_TwoCors(buf, rv) ==
    super_end_headers(
        send_header(send_header(buf, rv, CORS_ORIGIN), rv, CORS_METHODS), rv)

end_headers(buf, rv) ==
    super_end_headers(
        send_header(
            send_header(
                send_header(buf, rv, CORS_ORIGIN),
                rv, CORS_METHODS),
            rv, CORS_HEADERS),
        rv)

ErrBody(code) ==
    CASE code = 400 -> <<"error", "400">>
      [] code = 404 -> <<"error", "404", "File not found">>
      [] code = 501 -> <<"error", "501">>
      [] OTHER      -> <<"error", "???">>

\* send_error ending its header block without going through the override
send_error_PlainEnd(rv, command, code) ==
    LET h1 == send_header(send_response(rv, code), rv, "Connection: close")
        h2 == send_header(send_header(h1, rv, "Content-Type"), rv, "Content-Length")
    IN  [code |-> code,
         head |-> super_end_headers(h2, rv),
         body |-> IF command # "HEAD" THEN ErrBody(code) ELSE <<>>]

\* BaseHTTPRequestHandler.send_error, which ends its header block through
\* self.end_headers(), that is through the override
send_error(rv, command, code) ==
    LET h1 == send_header(send_response(rv, code), rv, "Connection: close")
        h2 == send_header(send_header(h1, rv, "Content-Type"), rv, "Content-Length")
    IN  [code |-> code,
         head |-> end_headers(h2, rv),
         body |-> IF command # "HEAD" THEN ErrBody(code) ELSE <<>>]

(***************************************************************************)
(* SimpleHTTPRequestHandler: path translation and send_head                *)
(***************************************************************************)
\* the part of the path before the query string
BeforeQuery(path) ==
    LET q == {k \in 1..Len(path) : path[k] = "?"}
    IN  IF q = {} THEN path
        ELSE SubSeq(path, 1, (CHOOSE k \in q : \A j \in q : k <= j) - 1)

\* translate_path: the names below DIRECTORY that the path walks through
translate_path(path) == SelectSeq(BeforeQuery(path), LAMBDA t : t # "/")

\* the only directory of the model is DIRECTORY itself
isdir(names) == names = <<>>

isfile(fs, names) ==
    /\ Len(names) = 1
    /\ names[1] \in FileNames
    /\ fs[names[1]] # NoFile

send_file(fs, rv, name) ==
    LET h == send_header(
                 send_header(
                     send_header(send_response(rv, 200), rv, "Content-type"),
                     rv, "Content-Length"),
                 rv, "Last-Modified")
    IN  [code |-> 200, head |-> end_headers(h, rv), body |-> <<"file", fs[name]>>]

\* the listing's title shows the request path, so its bytes depend on it
list_directory(fs, rv, path) ==
    LET h == send_header(
                 send_header(send_response(rv, 200), rv, "Content-type"),
                 rv, "Content-Length")
    IN  [code |-> 200, head |-> end_headers(h, rv), body |-> <<"listing">> \o path]

\* The root directory is the only directory, so the redirect of a
\* directory path without its trailing slash does not arise; requests
\* carry no If-Modified-Since header, and index.htm is never present.
send_head(fs, rv, command, path) ==
    LET names == translate_path(path)
    IN  IF isdir(names)
        THEN IF fs["index.html"] # NoFile
             THEN send_file(fs, rv, "index.html")
             ELSE list_directory(fs, rv, path)
        ELSE IF isfile(fs, names)
             THEN send_file(fs, rv, names[1])
             ELSE send_error(rv, command, 404)

super_do_GET(fs, rv, path) == send_head(fs, rv, "GET", path)

\* do_HEAD is inherited: send_head on self.path as received, and no body
do_HEAD(fs, rv, path) ==
    [send_head(fs, rv, "HEAD", path) EXCEPT !.body = <<>>] @@ [served |-> path]

(***************************************************************************)
(* Handler.do_GET (serve.py 21-25)                                         *)
(***************************************************************************)
\* the rewrite with its first test dropped
rewrite_IndexOnly(path) ==
    IF path = P_index THEN P_dev ELSE path

\* the rewrite testing the path without its query string
rewrite_IgnoreQuery(path) ==
    IF BeforeQuery(path) = P_root \/ BeforeQuery(path) = P_index THEN P_dev ELSE path

\* the value of self.path that do_GET hands to super().do_GET()
rewrite(path) ==
    IF path = P_root \/ path = P_index THEN P_dev ELSE path

do_GET(fs, rv, path) ==
    super_do_GET(fs, rv, rewrite(path)) @@ [served |-> rewrite(path)]

(***************************************************************************)
(* BaseHTTPRequestHandler.handle_one_request: parse_request, then the      *)
(* dispatch on 'do_' + command.  Handler defines do_GET and inherits       *)
(* do_HEAD; every other command is answered 501.                           *)
(***************************************************************************)
\* self.request_version once the request line is accepted
request_version(ver) == IF ver = NoVersion THEN "HTTP/0.9" ELSE ver

\* parse_request rejects the line; request_version is still the default
\* 'HTTP/0.9' and command is still None when it calls send_error
parse_fails(command, ver) ==
    \/ ver = "HTTP/x.y"
    \/ ver = NoVersion /\ command # "GET"

handle_one_request(fs, command, path, ver) ==
    IF parse_fails(command, ver)
    THEN send_error("HTTP/0.9", "", 400) @@ [served |-> <<>>]
    ELSE IF command = "GET"
         THEN do_GET(fs, request_version(ver), path)
         ELSE IF command = "HEAD"
              THEN do_HEAD(fs, request_version(ver), path)
              ELSE send_error(request_version(ver), command, 501)
                       @@ [served |-> path]

(***************************************************************************)
(* The __main__ block (serve.py 27-61), one copy per process               *)
(***************************************************************************)
Said(i, what) == log' = [log EXCEPT ![i] = log[i] \o what]

Init ==
    /\ platform \in Platforms
    /\ root \in Roots
    /\ pc = [i \in Instances |-> "start"]
    /\ sock = [i \in Instances |-> FALSE]
    /\ err = [i \in Instances |-> 0]
    /\ exitCode = [i \in Instances |-> -1]
    /\ log = [i \in Instances |-> <<>>]
    /\ sigints = [i \in Instances |-> 0]
    /\ resp = NoResponse

\* line 29: TCPServer(("", PORT), Handler) binds and listens
Bind(i) ==
    /\ pc[i] = "start"
    /\ \A j \in Instances : ~sock[j]
    /\ sock' = [sock EXCEPT ![i] = TRUE]
    /\ pc' = [pc EXCEPT ![i] = "banner"]
    /\ Said(i, <<"bind">>)
    /\ UNCHANGED <<platform, root, err, exitCode, sigints, resp>>

\* a held port answered by binding anyway, as with address reuse switched on
BindInUse_Reuse(i) ==
    /\ pc[i] = "start"
    /\ \E j \in Instances : sock[j]
    /\ sock' = [sock EXCEPT ![i] = TRUE]
    /\ pc' = [pc EXCEPT ![i] = "banner"]
    /\ Said(i, <<"bind">>)
    /\ UNCHANGED <<platform, root, err, exitCode, sigints, resp>>

\* line 29 raises OSError: the port is held (allow_reuse_address is off)
BindInUse(i) ==
    /\ pc[i] = "start"
    /\ \E j \in Instances : sock[j]
    /\ err' = [err EXCEPT ![i] = EADDRINUSE(platform)]
    /\ pc' = [pc EXCEPT ![i] = "oserror"]
    /\ UNCHANGED <<platform, root, sock, exitCode, log, sigints, resp>>

\* the banner printed ahead of the with statement
BindOther_BannerFirst(i) ==
    /\ pc[i] = "start"
    /\ \E e \in OtherErrnos(platform) : err' = [err EXCEPT ![i] = e]
    /\ pc' = [pc EXCEPT ![i] = "oserror"]
    /\ Said(i, <<"banner">>)
    /\ UNCHANGED <<platform, root, sock, exitCode, sigints, resp>>

\* line 29 raises OSError for another reason
BindOther(i) ==
    /\ pc[i] = "start"
    /\ \E e \in OtherErrnos(platform) : err' = [err EXCEPT ![i] = e]
    /\ pc' = [pc EXCEPT ![i] = "oserror"]
    /\ UNCHANGED <<platform, root, sock, exitCode, log, sigints, resp>>

\* lines 30-42
PrintBanner(i) ==
    /\ pc[i] = "banner"
    /\ pc' = [pc EXCEPT ![i] = "launch"]
    /\ Said(i, <<"banner">>)
    /\ UNCHANGED <<platform, root, sock, err, exitCode, sigints, resp>>

\* lines 45-46: enter the try block and call webbrowser.open
LaunchBrowser(i) ==
    /\ pc[i] = "launch"
    /\ pc' = [pc EXCEPT ![i] = "in_browser"]
    /\ Said(i, <<"launch">>)
    /\ UNCHANGED <<platform, root, sock, err, exitCode, sigints, resp>>

\* lines 46-47, 51: webbrowser.open returns, then serve_forever()
BrowserReturns(i) ==
    /\ pc[i] = "in_browser"
    /\ pc' = [pc EXCEPT ![i] = "serve"]
    /\ Said(i, <<"opened", "accept">>)
    /\ UNCHANGED <<platform, root, sock, err, exitCode, sigints, resp>>

\* the try block without its except clause: the exception leaves the with
\* block, which closes the socket, and ends in the OSError handler
BrowserRaises_Propagates(i) ==
    /\ pc[i] = "in_browser"
    /\ pc' = [pc EXCEPT ![i] = "oserror"]
    /\ sock' = [sock EXCEPT ![i] = FALSE]
    /\ UNCHANGED <<platform, root, err, exitCode, log, sigints, resp>>

\* lines 48-49, 51: webbrowser.open raises, the bare except prints the
\* fallback, then serve_forever()
BrowserRaises(i) ==
    /\ pc[i] = "in_browser"
    /\ pc' = [pc EXCEPT ![i] = "serve"]
    /\ Said(i, <<"manual", "accept">>)
    /\ UNCHANGED <<platform, root, sock, err, exitCode, sigints, resp>>

\* SIGINT: Python raises KeyboardInterrupt in the main thread.  Inside
\* the try block of lines 45-49 the bare except catches it like any other
\* exception; anywhere else in the with block it leaves the block, whose
\* exit closes the socket, and reaches the handler of line 52.
Interrupt(i) ==
    /\ pc[i] \in {"banner", "launch", "in_browser", "serve"}
    /\ sigints[i] < MaxSigints
    /\ sigints' = [sigints EXCEPT ![i] = sigints[i] + 1]
    /\ IF pc[i] = "in_browser"
       THEN /\ pc' = [pc EXCEPT ![i] = "serve"]
            /\ Said(i, <<"manual", "accept">>)
            /\ UNCHANGED sock
       ELSE /\ pc' = [pc EXCEPT ![i] = "kbdint"]
            /\ sock' = [sock EXCEPT ![i] = FALSE]
            /\ UNCHANGED log
    /\ UNCHANGED <<platform, root, err, exitCode, resp>>

\* lines 52-54
ExitInterrupted(i) ==
    /\ pc[i] = "kbdint"
    /\ pc' = [pc EXCEPT ![i] = "exited"]
    /\ exitCode' = [exitCode EXCEPT ![i] = 0]
    /\ Said(i, <<"stopped">>)
    /\ UNCHANGED <<platform, root, sock, err, sigints, resp>>

\* lines 55-61
ExitOSError(i) ==
    /\ pc[i] = "oserror"
    /\ pc' = [pc EXCEPT ![i] = "exited"]
    /\ exitCode' = [exitCode EXCEPT ![i] = 1]
    /\ Said(i, IF err[i] = ERRNO_IN_USE_LITERAL
               THEN <<"port_in_use">> ELSE <<"error">>)
    /\ UNCHANGED <<platform, root, sock, err, sigints, resp>>

\* serve_forever() accepts a connection and Handler answers its request
HandleRequest(i) ==
    /\ pc[i] = "serve"
    /\ \E command \in Commands, path \in Paths, ver \in Versions :
         resp' = [inst |-> i, command |-> command, path |-> path,
                  version |-> ver]
                 @@ handle_one_request(root, command, path, ver)
    /\ UNCHANGED <<platform, root, pc, sock, err, exitCode, log, sigints>>

ProgramStep(i) ==
    \/ Bind(i) \/ BindInUse(i) \/ BindOther(i)
    \/ PrintBanner(i) \/ LaunchBrowser(i)
    \/ BrowserReturns(i) \/ BrowserRaises(i)
    \/ ExitInterrupted(i) \/ ExitOSError(i)

Next ==
    \E i \in Instances :
        \/ Bind(i)
        \/ BindInUse(i)
        \/ BindOther(i)
        \/ PrintBanner(i)
        \/ LaunchBrowser(i)
        \/ BrowserReturns(i)
        \/ BrowserRaises(i)
        \/ Interrupt(i)
        \/ ExitInterrupted(i)
        \/ ExitOSError(i)
        \/ HandleRequest(i)

Spec == Init /\ [][Next]_vars

\* a running process keeps executing; signals and requests come when the
\* environment sends them
FairSpec == Spec /\ \A i \in Instances : WF_vars(ProgramStep(i))

(***************************************************************************)
(* Properties                                                              *)
(***************************************************************************)
Cors == {CORS_ORIGIN, CORS_METHODS, CORS_HEADERS}

Answered == resp.inst # "none"

\* the request reached do_GET or do_HEAD
FileRequest ==
    /\ Answered
    /\ resp.command \in {"GET", "HEAD"}
    /\ ~parse_fails(resp.command, resp.version)

\* nothing under the root directory is at the path served
NothingThere ==
    /\ ~isdir(translate_path(resp.served))
    /\ ~isfile(root, translate_path(resp.served))

HasCors(head) ==
    /\ \A h \in Cors : Count(head, h) = 1
    /\ First(head, CORS_ORIGIN) < First(head, CORS_METHODS)
    /\ First(head, CORS_METHODS) < First(head, CORS_HEADERS)
    /\ First(head, CORS_HEADERS) < First(head, "")

\* C1 as stated: every response the server writes, whatever the path, the
\* method and the status, carries the three CORS headers.
C1_EveryResponseHasCors ==
    Answered => Cors \subseteq Range(resp.head)

\* C1 amended: a response has a status line and a header block exactly
\* when its request line carried an accepted HTTP/1.x version, and every
\* response that has them carries the three CORS headers, once each,
\* inside the header block, whatever the path, the method and the status.
C1_EveryHeaderBlockHasCors ==
    Answered =>
        /\ resp.head # <<>> <=> resp.version = "HTTP/1.1"
        /\ resp.head # <<>> =>
              /\ resp.head[1] = StatusLine(resp.code)
              /\ HasCors(resp.head)

C1_Witness ==
    /\ Answered
    /\ resp.command = "POST"
    /\ resp.code = 501
    /\ HasCors(resp.head)

\* C2: a request for "/" or "/index.html" is served from
\* "/dev-server.html".
C2_RootServedFromEntry ==
    FileRequest /\ resp.path \in {P_root, P_index} => resp.served = P_dev

\* what the code does guarantee: the rewrite on GET
C2_GetRootServedFromEntry ==
    FileRequest /\ resp.command = "GET" /\ resp.path \in {P_root, P_index}
        => resp.served = P_dev

\* C3: a request for any path other than exactly "/" and "/index.html"
\* is served from that path unchanged.
C3_OtherPathsUnchanged ==
    /\ Answered
    /\ ~parse_fails(resp.command, resp.version)
    /\ resp.path \notin {P_root, P_index}
    => resp.served = resp.path

C3_Witness ==
    /\ FileRequest
    /\ resp.command = "GET"
    /\ resp.path = P_query
    /\ resp.served = P_query
    /\ resp.code = 200

\* a 404 response with the CORS headers
NotFoundWithCors ==
    /\ resp.code = 404
    /\ resp.head # <<>>
    /\ resp.head[1] = StatusLine(404)
    /\ Cors \subseteq Range(resp.head)

\* answering a request leaves the processes as they were
RequestsLeaveProcesses ==
    [][resp' # resp => UNCHANGED <<platform, root, life>>]_vars

\* C4 as stated: a request for a path with no file under the root
\* directory is answered 404 with the three CORS headers.
C4_MissingFileIs404WithCors ==
    FileRequest /\ NothingThere => NotFoundWithCors

\* C4 amended: a GET or HEAD request whose request line carries an
\* HTTP/1.x version, for a path with no file under the root directory, is
\* answered 404 with the three CORS headers, and answering it leaves the
\* process state unchanged: same socket, same configuration, still in the
\* accept loop.
C4_MissingFileIs404WithCorsHttp1 ==
    /\ [](FileRequest /\ resp.version = "HTTP/1.1" /\ NothingThere
            => NotFoundWithCors)
    /\ RequestsLeaveProcesses

C4_Witness ==
    /\ FileRequest
    /\ resp.path = P_sub
    /\ NothingThere
    /\ NotFoundWithCors
    /\ pc[resp.inst] = "serve"
    /\ sock[resp.inst]

IsGetOf(r, path) ==
    /\ r.inst # "none"
    /\ r.command = "GET"
    /\ ~parse_fails(r.command, r.version)
    /\ r.path = path

\* C5: with the root directory fixed, a GET of "/" and a GET of
\* "/dev-server.html" return the same body, one answered right after the
\* other in either order.
C5_RootAndEntrySameBody ==
    [][ \/ IsGetOf(resp, P_root) /\ IsGetOf(resp', P_dev)
        \/ IsGetOf(resp, P_dev) /\ IsGetOf(resp', P_root)
        => resp'.body = resp.body ]_vars

C5_Witness ==
    /\ IsGetOf(resp, P_root)
    /\ root["index.html"] # NoFile
    /\ resp.body = <<"file", "D">>

Others(i) == Instances \ {i}

\* C6: a process started while another holds the port never binds, never
\* prints the banner, never enters the accept loop and exits with status
\* 1; its failing leaves the holder bound and in its accept loop.
C6_SecondInstanceFails ==
    /\ [](\A i \in Instances :
            err[i] = EADDRINUSE(platform) =>
                /\ ~sock[i]
                /\ pc[i] \in {"oserror", "exited"}
                /\ Range(log[i]) \cap {"bind", "banner", "launch", "accept"} = {}
                /\ exitCode[i] = IF pc[i] = "exited" THEN 1 ELSE -1)
    /\ [][\A i \in Instances :
            /\ pc[i] = "start" /\ pc'[i] # "start" /\ (\E j \in Others(i) : sock[j])
               => /\ pc'[i] = "oserror"
                  /\ err'[i] # 0
            /\ pc[i] \in {"start", "oserror"} /\ pc'[i] # pc[i]
               => \A j \in Others(i) :
                     /\ sock'[j] = sock[j]
                     /\ pc'[j] = pc[j]
                     /\ exitCode'[j] = exitCode[j]]_vars
    /\ \A i \in Instances : (err[i] # 0) ~> (exitCode[i] = 1)

C6_Witness ==
    \E i \in Instances : \E j \in Others(i) :
        /\ err[i] = EADDRINUSE(platform)
        /\ exitCode[i] = 1
        /\ sock[j]
        /\ pc[j] = "serve"
        /\ resp.inst = j

\* C7: an interrupt delivered to a process after its bind leads to its
\* socket closed and its exit with status 0.
C7_InterruptStops ==
    \A i \in Instances :
        (sigints[i] > 0) ~> (~sock[i] /\ exitCode[i] = 0)

\* C8: the port message is printed if and only if the bind failed with
\* the platform's "address already in use", the underlying error is
\* printed for every other failure, and the exit status is 1 in both.
C8_BindFailureClassified ==
    \A i \in Instances :
        pc[i] = "exited" /\ err[i] # 0 =>
            /\ exitCode[i] = 1
            /\ err[i] = EADDRINUSE(platform) <=> "port_in_use" \in Range(log[i])
            /\ err[i] # EADDRINUSE(platform) <=> "error" \in Range(log[i])

\* C9: whatever the browser launch does, the process goes on to the
\* accept loop with its socket open and without an exit status.
C9_BrowserOutcomeIgnored ==
    /\ [][\A i \in Instances :
            pc[i] = "in_browser" /\ pc'[i] # "in_browser" =>
                /\ pc'[i] = "serve"
                /\ sock'[i]
                /\ exitCode'[i] = -1
                /\ log'[i][Len(log'[i])] = "accept"]_vars
    /\ \A i \in Instances : (pc[i] = "in_browser") ~> (pc[i] = "serve")

C9_Witness ==
    \E i \in Instances :
        /\ "manual" \in Range(log[i])
        /\ sigints[i] = 0
        /\ pc[i] = "serve"
        /\ resp.inst = i

\* C10: bind, banner, one browser launch, accept loop, in that order; a
\* process whose bind failed prints no banner, launches no browser and
\* never enters the accept loop.
C10_StartupOrder ==
    \A i \in Instances :
        LET l == log[i]
            happened == {e \in {"bind", "banner", "launch", "accept"} : e \in Range(l)}
        IN  /\ \A e \in happened : Count(l, e) = 1
            /\ "banner" \in happened => "bind" \in happened
                                        /\ First(l, "bind") < First(l, "banner")
            /\ "launch" \in happened => "banner" \in happened
                                        /\ First(l, "banner") < First(l, "launch")
            /\ "accept" \in happened => "launch" \in happened
                                        /\ First(l, "launch") < First(l, "accept")
            /\ sock[i] => "bind" \in happened
            /\ pc[i] = "serve" => "accept" \in happened
            /\ err[i] # 0 => happened = {}

C10_Witness ==
    \E i \in Instances : \E j \in Others(i) :
        /\ pc[i] = "serve"
        /\ log[i] = <<"bind", "banner", "launch", "opened", "accept">>
        /\ pc[j] = "exited"
        /\ err[j] # 0

====
